---- MODULE Spec2Model ----
(***************************************************************************)
(* Model of scripts/cleanup-old-packages.py: the command line entry point, *)
(* the priority classifier and the eviction loop of cleanup_packages.      *)
(*                                                                         *)
(* Python's None is modelled as the empty set and a present value x as     *)
(* {x}. The code inspects version strings and the wheel attribute build_no *)
(* character by character: there a string is a sequence of one-character   *)
(* strings (Chars gives the characters of a version string).               *)
(***************************************************************************)
EXTENDS Integers, Sequences, FiniteSets

VARIABLES
    registry,      \* the package on the server: [versions, files]
    args,          \* argparse namespace of the running invocation
    pc,            \* position of the process
    package,       \* cleanup_packages: snapshot returned by aserver_api.package
    last_dev,      \* cleanup_packages: last dev version of the snapshot
    files,         \* cleanup_packages: the working list / queue
    total_size,    \* cleanup_packages: size of the files still in the queue
    cleanup_size,  \* cleanup_packages: size reclaimed so far
    last_version,  \* cleanup_packages: version of the last handled file
    last_build,    \* cleanup_packages: build of the last handled file
    log,           \* "Removing ..." lines printed: <<full_name, need_clean>>
    prompted,      \* full names passed to bool_input, in order
    remove_calls,  \* full names passed to aserver_api.remove_dist, in order
    listed,        \* number of aserver_api.package calls issued
    argv,          \* the command line the script is invoked with
    reports        \* <<log, cleanup_size>> of the earlier invocations

vars == <<registry, args, pc, package, last_dev, files, total_size,
          cleanup_size, last_version, last_build, log, prompted, remove_calls,
          listed, argv, reports>>

----------------------------------------------------------------------------
(* Bounds of the model.                                                    *)

\* files of a package under Spec and SpecTwice
MaxFiles == 2

\* files of a package under SpecPlan
PlanMaxFiles == 3

\* files of a package under SpecClassify
ClassifyMaxFiles == 3

\* length of the version sequence under SpecClassify
MaxVersions == 2

\* build numbers are 0..MaxBuild
MaxBuild == 1

\* file sizes are 1..MaxSize under Spec and SpecTwice
MaxSize == 2

\* file sizes are 1..PlanMaxSize under SpecPlan and SpecClassify
PlanMaxSize == 1

\* upload times are 1..MaxTime
MaxTime == 1

\* --max-size and --keep-count are unset or 0..MaxLimit
MaxLimit == 2

\* invocations of the script under SpecTwice
MaxRuns == 2

\* upload times are 1..OrderMaxTime under SpecOrder
OrderMaxTime == 2

----------------------------------------------------------------------------
(* Optional values.                                                        *)

None == {}

Some(x) == {x}

Get(o) == CHOOSE x \in o : TRUE

Range(s) == {s[i] : i \in 1..Len(s)}

----------------------------------------------------------------------------
(* Helpers of the script.                                                  *)

Digits == <<"0", "1", "2", "3", "4", "5", "6", "7", "8", "9">>

IsDigit(c) == c \in Range(Digits)

DigitVal(c) == (CHOOSE i \in 1..Len(Digits) : Digits[i] = c) - 1

\* int(s) for a string of decimal digits
RECURSIVE ParseInt(_)
ParseInt(s) ==
    IF s = <<>> THEN 0
    ELSE ParseInt(SubSeq(s, 1, Len(s) - 1)) * Len(Digits) + DigitVal(s[Len(s)])

\* index of the first character at or after i that is not a digit
RECURSIVE SkipDigits(_, _)
SkipDigits(s, i) ==
    IF i <= Len(s) /\ IsDigit(s[i]) THEN SkipDigits(s, i + 1) ELSE i

CharAt(s, i, c) == i <= Len(s) /\ s[i] = c

\* s has the characters of word at positions i, i+1, ...
HasAt(s, i, word) ==
    /\ i + Len(word) - 1 <= Len(s)
    /\ \A k \in 1..Len(word) : s[i + k - 1] = word[k]

\* the characters of the version strings the model uses
Chars(version) ==
    CASE version = "1.0.0" -> <<"1", ".", "0", ".", "0">>
      [] version = "1.0.0dev1" -> <<"1", ".", "0", ".", "0", "d", "e", "v", "1">>
      [] version = "1.0.1rc2" -> <<"1", ".", "0", ".", "1", "r", "c", "2">>
      [] version = "2.0.0.dev1" ->
             <<"2", ".", "0", ".", "0", ".", "d", "e", "v", "1">>
      [] version = "1.0" -> <<"1", ".", "0">>
      [] version = "1.2dev1" -> <<"1", ".", "2", "d", "e", "v", "1">>
      [] version = "2.0" -> <<"2", ".", "0">>
      [] version = "2.1dev1" -> <<"2", ".", "1", "d", "e", "v", "1">>
      [] version = "2.1dev2" -> <<"2", ".", "1", "d", "e", "v", "2">>

\* re.search(r"^\d+\.\d+\.\d+\.?(dev|rc)\d+", version) with the tags the
\* pattern accepts between the numeric triplet and the trailing digits
MatchesDev(version, tags) ==
    LET i1 == SkipDigits(version, 1)
        i2 == SkipDigits(version, i1 + 1)
        i3 == SkipDigits(version, i2 + 1)
        i4 == IF CharAt(version, i3, ".") THEN i3 + 1 ELSE i3
    IN  /\ i1 > 1
        /\ CharAt(version, i1, ".")
        /\ i2 > i1 + 1
        /\ CharAt(version, i2, ".")
        /\ i3 > i2 + 1
        /\ \E tag \in tags :
               /\ HasAt(version, i4, tag)
               /\ i4 + Len(tag) <= Len(version)
               /\ IsDigit(version[i4 + Len(tag)])

VersionStrings ==
    {"1.0.0", "1.0.0dev1", "1.0.1rc2", "2.0.0.dev1", "1.0", "1.2dev1", "2.0",
     "2.1dev1", "2.1dev2"}

\* the pattern applied to each version string of the model, evaluated once
DevVersions ==
    {v \in VersionStrings :
        MatchesDev(Chars(v), {<<"d", "e", "v">>, <<"r", "c">>})}

is_dev_version(version) == version \in DevVersions

Max(a, b) == IF a >= b THEN a ELSE b

\* file.get("attrs", {}).get(key, 0)
AttrOr0(o) == IF o = None THEN 0 ELSE Get(o)

build_number(file) ==
    Max(AttrOr0(file.attrs.build_number),
        IF file.attrs.build_no = None THEN 0
        ELSE ParseInt(Get(file.attrs.build_no)))

\* max(map(build_number, files), default=0)
max_build(fs) ==
    IF fs = <<>> THEN 0
    ELSE CHOOSE m \in {build_number(fs[i]) : i \in 1..Len(fs)} :
             \A i \in 1..Len(fs) : build_number(fs[i]) <= m

----------------------------------------------------------------------------
(* The classifier, lines 115-148.                                          *)

\* files_by_version[version]
files_by_version(fs, version) == SelectSeq(fs, LAMBDA f : f.version = version)

\* LastDev that keeps the first dev version of the sequence
LastDev_first(versions, last) ==
    IF \E i \in 1..Len(versions) : is_dev_version(versions[i])
    THEN Some(versions[CHOOSE i \in 1..Len(versions) :
                          /\ is_dev_version(versions[i])
                          /\ \A j \in 1..(i - 1) :
                                 ~is_dev_version(versions[j])])
    ELSE last

\* lines 121-124: the loop over versions, from the value last of last_dev
RECURSIVE LastDev(_, _)
LastDev(versions, last) ==
    IF versions = <<>> THEN last
    ELSE LastDev(Tail(versions),
                 IF is_dev_version(Head(versions)) THEN Some(Head(versions))
                 ELSE last)

\* Priority without the comparison with last_dev at line 139
Priority_last_dev_ignored(file, is_dev, mbd, lastdev) ==
    IF build_number(file) = mbd
    THEN IF is_dev THEN 2 ELSE 4
    ELSE IF is_dev /\ Some(file.version) = lastdev THEN 3
    ELSE IF is_dev THEN 0
    ELSE 1

\* Priority without the branch of line 143
Priority_release_as_dev(file, is_dev, mbd, lastdev) ==
    IF build_number(file) = mbd
    THEN IF is_dev /\ Some(file.version) # lastdev THEN 2 ELSE 4
    ELSE IF is_dev /\ Some(file.version) = lastdev THEN 3
    ELSE 0

\* Priority that reads the conda attribute build_number alone at line 138
Priority_conda_only(file, is_dev, mbd, lastdev) ==
    IF AttrOr0(file.attrs.build_number) = mbd
    THEN IF is_dev /\ Some(file.version) # lastdev THEN 2 ELSE 4
    ELSE IF is_dev /\ Some(file.version) = lastdev THEN 3
    ELSE IF is_dev THEN 0
    ELSE 1

\* lines 136-146
Priority(file, is_dev, mbd, lastdev) ==
    IF build_number(file) = mbd
    THEN IF is_dev /\ Some(file.version) # lastdev THEN 2 ELSE 4
    ELSE IF is_dev /\ Some(file.version) = lastdev THEN 3
    ELSE IF is_dev THEN 0
    ELSE 1

\* lines 131-148 for the files rest of the list fs: a file whose version is
\* not listed in versions is left without cleanup_priority
RECURSIVE ClassifyFrom(_, _, _, _)
ClassifyFrom(rest, fs, versions, lastdev) ==
    IF rest = <<>> THEN <<>>
    ELSE LET file == Head(rest)
             done == IF file.version \in Range(versions)
                     THEN [file EXCEPT !.cleanup_priority =
                              Some(Priority(file, is_dev_version(file.version),
                                  max_build(files_by_version(fs, file.version)),
                                  lastdev))]
                     ELSE file
         IN  <<done>> \o ClassifyFrom(Tail(rest), fs, versions, lastdev)

Classify(fs, versions, lastdev) == ClassifyFrom(fs, fs, versions, lastdev)

----------------------------------------------------------------------------
(* files.sort(key=itemgetter("cleanup_priority", "upload_time")), line 160 *)

\* KeyLeq that compares upload_time alone
KeyLeq_by_time(a, b) == a.upload_time <= b.upload_time

\* KeyLeq that compares cleanup_priority alone
KeyLeq_by_priority(a, b) ==
    Get(a.cleanup_priority) <= Get(b.cleanup_priority)

KeyLeq(a, b) ==
    \/ Get(a.cleanup_priority) < Get(b.cleanup_priority)
    \/ /\ Get(a.cleanup_priority) = Get(b.cleanup_priority)
       /\ a.upload_time <= b.upload_time

\* f goes after every element whose key is not greater: the sort is stable
Insert(sorted, f) ==
    LET k == Cardinality({i \in 1..Len(sorted) : KeyLeq(sorted[i], f)})
    IN  SubSeq(sorted, 1, k) \o <<f>> \o SubSeq(sorted, k + 1, Len(sorted))

RECURSIVE SortFiles(_)
SortFiles(fs) ==
    IF fs = <<>> THEN <<>>
    ELSE Insert(SortFiles(SubSeq(fs, 1, Len(fs) - 1)), fs[Len(fs)])

RECURSIVE SumSizes(_)
SumSizes(fs) ==
    IF fs = <<>> THEN 0 ELSE fs[1].size + SumSizes(Tail(fs))

----------------------------------------------------------------------------
(* The command line entry point, lines 210-294.                            *)

QuotaPackages ==
    {"dppy/dpctl", "dppy/dpnp", "dppy/numba-dpex", "dppy/numba-mlir",
     "dppy/dpbench", "dppy/dpcpp-llvm-spirv"}

QUOTAS ==
    [p \in QuotaPackages |->
        CASE p = "dppy/dpctl" -> (512 + 128) * 1024 * 1024
          [] p = "dppy/dpnp" -> (512 - 128) * 1024 * 1024
          [] p = "dppy/numba-dpex" -> 256 * 1024 * 1024
          [] p = "dppy/numba-mlir" -> 512 * 1024 * 1024
          [] p = "dppy/dpbench" -> 128 * 1024 * 1024
          [] p = "dppy/dpcpp-llvm-spirv" -> 256 * 1024 * 1024]

\* lines 268-272
QuotaMaxSize(a) ==
    IF a.max_size = None /\ a.package_path \in DOMAIN QUOTAS
    THEN Some(QUOTAS[a.package_path])
    ELSE a.max_size

\* lines 274-278
NoLimit(a) ==
    a.max_size = None /\ a.max_priority = None /\ a.keep_count = None

\* Main without the test of lines 274-282
Main_unchecked ==
    /\ pc = "main"
    /\ args' = [argv EXCEPT !.max_size = QuotaMaxSize(argv)]
    /\ pc' = "cleanup_packages"
    /\ UNCHANGED <<registry, package, last_dev, files, total_size,
                   cleanup_size, last_version, last_build, log, prompted,
                   remove_calls, listed, argv, reports>>

\* lines 266-294: parse the command line, apply the quota table, reject a
\* command line without any limit, call cleanup_packages
Main ==
    /\ pc = "main"
    /\ args' = [argv EXCEPT !.max_size = QuotaMaxSize(argv)]
    /\ pc' = IF NoLimit(args') THEN "error" ELSE "cleanup_packages"
    /\ UNCHANGED <<registry, package, last_dev, files, total_size,
                   cleanup_size, last_version, last_build, log, prompted,
                   remove_calls, listed, argv, reports>>

----------------------------------------------------------------------------
(* cleanup_packages, lines 105-207.                                        *)

\* line 114: label in a["labels"]
InLabel(f) == args.label = None \/ Get(args.label) \in f.labels

\* package["files"] once the files of the working list are classified: the
\* working list holds the same objects
RECURSIVE Annotated(_, _)
Annotated(all, classified) ==
    IF all = <<>> THEN <<>>
    ELSE IF InLabel(Head(all))
         THEN <<Head(classified)>> \o Annotated(Tail(all), Tail(classified))
         ELSE <<Head(all)>> \o Annotated(Tail(all), classified)

\* lines 105-164: fetch the package, filter by label, classify, sort
Fetch ==
    /\ pc = "cleanup_packages"
    /\ listed' = listed + 1
    /\ last_dev' = LastDev(registry.versions, None)
    /\ LET filtered == SelectSeq(registry.files, InLabel)
           classified == Classify(filtered, registry.versions, last_dev')
       IN  /\ package' = [versions |-> registry.versions,
                           files |-> Annotated(registry.files, classified)]
           /\ total_size' = SumSizes(filtered)
           /\ files' = SortFiles(classified)
    /\ last_version' = None
    /\ last_build' = None
    /\ cleanup_size' = 0
    /\ pc' = "loop"
    /\ UNCHANGED <<registry, args, log, prompted, remove_calls, argv,
                   reports>>

\* need_clean with < for <= at line 174
need_clean_strict_priority ==
    \/ args.max_size # None /\ total_size > Get(args.max_size)
    \/ /\ args.max_priority # None
       /\ Get(files[1].cleanup_priority) < Get(args.max_priority)
    \/ args.keep_count # None /\ Len(files) > Get(args.keep_count)

\* need_clean with >= for > at line 176
need_clean_keep_at_least ==
    \/ args.max_size # None /\ total_size > Get(args.max_size)
    \/ /\ args.max_priority # None
       /\ Get(files[1].cleanup_priority) <= Get(args.max_priority)
    \/ args.keep_count # None /\ Len(files) >= Get(args.keep_count)

\* need_clean without line 171
need_clean_size_ignored ==
    \/ /\ args.max_priority # None
       /\ Get(files[1].cleanup_priority) <= Get(args.max_priority)
    \/ args.keep_count # None /\ Len(files) > Get(args.keep_count)

\* need_clean with >= for > at line 171
need_clean_size_at_least ==
    \/ args.max_size # None /\ total_size >= Get(args.max_size)
    \/ /\ args.max_priority # None
       /\ Get(files[1].cleanup_priority) <= Get(args.max_priority)
    \/ args.keep_count # None /\ Len(files) > Get(args.keep_count)

\* lines 170-177, for the file at the front of the queue
need_clean ==
    \/ args.max_size # None /\ total_size > Get(args.max_size)
    \/ /\ args.max_priority # None
       /\ Get(files[1].cleanup_priority) <= Get(args.max_priority)
    \/ args.keep_count # None /\ Len(files) > Get(args.keep_count)

\* StopCondition without the comparison with the last handled file
StopCondition_any == ~need_clean

\* lines 180-183
StopCondition ==
    /\ ~need_clean
    /\ \/ last_version = None
       \/ last_version # Some(files[1].version)
       \/ last_build # Some(build_number(files[1]))

\* the loop handles the front file: lines 165-186 passed without break
Handling ==
    /\ pc = "loop"
    /\ files # <<>>
    /\ ~StopCondition

\* line 186
MarkLast ==
    /\ last_version' = Some(files[1].version)
    /\ last_build' = Some(build_number(files[1]))

\* lines 188-189
LogRemoving ==
    log' = IF args.dry_run \/ args.force
           THEN Append(log, <<files[1].full_name, need_clean>>)
           ELSE log

\* Advance without line 204
Advance_keeps_total ==
    /\ files' = Tail(files)
    /\ total_size' = total_size
    /\ cleanup_size' = cleanup_size + files[1].size

\* lines 203-205
Advance ==
    /\ files' = Tail(files)
    /\ total_size' = total_size - files[1].size
    /\ cleanup_size' = cleanup_size + files[1].size

\* the registry after a successful remove_dist of the file full_name
RemoveDist(full_name) ==
    [registry EXCEPT !.files =
        SelectSeq(registry.files, LAMBDA f : f.full_name # full_name)]

\* lines 180-185: break
StopLoop ==
    /\ pc = "loop"
    /\ files # <<>>
    /\ StopCondition
    /\ last_version' = None
    /\ last_build' = None
    /\ pc' = "done"
    /\ UNCHANGED <<registry, args, package, last_dev, files, total_size,
                   cleanup_size, log, prompted, remove_calls, listed, argv,
                   reports>>

\* line 165 with an empty queue, line 207
EndLoop ==
    /\ pc = "loop"
    /\ files = <<>>
    /\ pc' = "done"
    /\ UNCHANGED <<registry, args, package, last_dev, files, total_size,
                   cleanup_size, last_version, last_build, log, prompted,
                   remove_calls, listed, argv, reports>>

\* DryRunStep with the test of line 191 dropped
DryRunStep_removes ==
    /\ Handling
    /\ args.dry_run
    /\ MarkLast /\ LogRemoving /\ Advance
    /\ remove_calls' = Append(remove_calls, files[1].full_name)
    /\ registry' = RemoveDist(files[1].full_name)
    /\ UNCHANGED <<args, pc, package, last_dev, prompted, listed, argv,
                   reports>>

\* an iteration with dry_run set: lines 186-189, 203-205
DryRunStep ==
    /\ Handling
    /\ args.dry_run
    /\ MarkLast /\ LogRemoving /\ Advance
    /\ UNCHANGED <<registry, args, pc, package, last_dev, prompted,
                   remove_calls, listed, argv, reports>>

\* ForceStep with bool_input called in spite of force at line 194
ForceStep_asks ==
    /\ Handling
    /\ ~args.dry_run /\ args.force
    /\ MarkLast /\ LogRemoving /\ Advance
    /\ prompted' = Append(prompted, files[1].full_name)
    /\ remove_calls' = Append(remove_calls, files[1].full_name)
    /\ registry' = RemoveDist(files[1].full_name)
    /\ UNCHANGED <<args, pc, package, last_dev, listed, argv, reports>>

\* an iteration with force set: remove_dist is called and returns
ForceStep ==
    /\ Handling
    /\ ~args.dry_run /\ args.force
    /\ MarkLast /\ LogRemoving /\ Advance
    /\ remove_calls' = Append(remove_calls, files[1].full_name)
    /\ registry' = RemoveDist(files[1].full_name)
    /\ UNCHANGED <<args, pc, package, last_dev, prompted, listed, argv,
                   reports>>

\* an interactive iteration, the user accepts, remove_dist returns
ConfirmStep ==
    /\ Handling
    /\ ~args.dry_run /\ ~args.force
    /\ MarkLast /\ LogRemoving /\ Advance
    /\ prompted' = Append(prompted, files[1].full_name)
    /\ remove_calls' = Append(remove_calls, files[1].full_name)
    /\ registry' = RemoveDist(files[1].full_name)
    /\ UNCHANGED <<args, pc, package, last_dev, listed, argv, reports>>

\* DeclineStep that leaves the loop when the user declines
DeclineStep_stops ==
    /\ Handling
    /\ ~args.dry_run /\ ~args.force
    /\ MarkLast /\ LogRemoving
    /\ prompted' = Append(prompted, files[1].full_name)
    /\ pc' = "done"
    /\ UNCHANGED <<registry, args, package, last_dev, files, total_size,
                   cleanup_size, remove_calls, listed, argv, reports>>

\* an interactive iteration, the user declines: bool_input returns False
DeclineStep ==
    /\ Handling
    /\ ~args.dry_run /\ ~args.force
    /\ MarkLast /\ LogRemoving /\ Advance
    /\ prompted' = Append(prompted, files[1].full_name)
    /\ UNCHANGED <<registry, args, pc, package, last_dev, remove_calls,
                   listed, argv, reports>>

\* RemoveFails with the exception caught and the loop continued
RemoveFails_swallowed ==
    /\ Handling
    /\ ~args.dry_run
    /\ MarkLast /\ LogRemoving /\ Advance
    /\ prompted' = IF args.force THEN prompted
                   ELSE Append(prompted, files[1].full_name)
    /\ remove_calls' = Append(remove_calls, files[1].full_name)
    /\ UNCHANGED <<registry, args, pc, package, last_dev, listed, argv,
                   reports>>

\* remove_dist raises: the exception leaves the loop at line 195
RemoveFails ==
    /\ Handling
    /\ ~args.dry_run
    /\ MarkLast /\ LogRemoving
    /\ prompted' = IF args.force THEN prompted
                   ELSE Append(prompted, files[1].full_name)
    /\ remove_calls' = Append(remove_calls, files[1].full_name)
    /\ pc' = "aborted"
    /\ UNCHANGED <<registry, args, package, last_dev, files, total_size,
                   cleanup_size, listed, argv, reports>>

\* the same command line is run again after a completed run
Rerun ==
    /\ pc = "done"
    /\ Len(reports) + 1 < MaxRuns
    /\ reports' = Append(reports, <<log, cleanup_size>>)
    /\ pc' = "main"
    /\ args' = argv
    /\ package' = [versions |-> <<>>, files |-> <<>>]
    /\ last_dev' = None
    /\ files' = <<>>
    /\ total_size' = 0
    /\ cleanup_size' = 0
    /\ last_version' = None
    /\ last_build' = None
    /\ log' = <<>>
    /\ prompted' = <<>>
    /\ remove_calls' = <<>>
    /\ listed' = 0
    /\ UNCHANGED <<registry, argv>>

----------------------------------------------------------------------------
(* Inputs: packages on the server and command lines.                       *)

\* sequences over S of length lo..hi
SeqsOf(S, lo, hi) == UNION {[1..n -> S] : n \in lo..hi}

\* the attrs of a conda file, of a wheel, and of a file without attrs
AttrsSpace ==
    {[build_number |-> None, build_no |-> None]}
    \cup {[build_number |-> Some(b), build_no |-> None] : b \in 1..MaxBuild}
    \cup {[build_number |-> None, build_no |-> Some(<<Digits[b + 1]>>)] :
             b \in 1..MaxBuild}

\* the files a package with these versions may hold, without their names
FileSpace(versions, attrs, sizes, times, labels) ==
    [version : Range(versions), attrs : attrs, size : sizes,
     upload_time : times, labels : labels, cleanup_priority : {None}]

\* full_name identifies a file: its position in the listing of the server
RECURSIVE Named(_, _)
Named(fs, n) ==
    IF fs = <<>> THEN <<>>
    ELSE <<[full_name |-> n, version |-> fs[1].version, attrs |-> fs[1].attrs,
            size |-> fs[1].size, upload_time |-> fs[1].upload_time,
            labels |-> fs[1].labels,
            cleanup_priority |-> fs[1].cleanup_priority]>>
         \o Named(Tail(fs), n + 1)

\* the server holds a package of up to maxFiles files
Packages(versionSeqs, attrs, sizes, times, labels, maxFiles) ==
    \E vs \in versionSeqs, n \in 0..maxFiles :
        \E fs \in [1..n -> FileSpace(vs, attrs, sizes, times, labels)] :
            registry = [versions |-> vs, files |-> Named(fs, 1)]

Limits == {None} \cup {Some(n) : n \in 0..MaxLimit}

Priorities == {None} \cup {Some(p) : p \in 0..4}

\* command lines with every combination of limits
CommandLines(paths, labels, dryRuns, forces) ==
    [package_path : paths, label : labels, keep_count : Limits,
     max_size : Limits, max_priority : Priorities, dry_run : dryRuns,
     force : forces]

InitWith(commandLines) ==
    /\ argv \in commandLines
    /\ args = argv
    /\ pc = "main"
    /\ package = [versions |-> <<>>, files |-> <<>>]
    /\ last_dev = None
    /\ files = <<>>
    /\ total_size = 0
    /\ cleanup_size = 0
    /\ last_version = None
    /\ last_build = None
    /\ log = <<>>
    /\ prompted = <<>>
    /\ remove_calls = <<>>
    /\ listed = 0
    /\ reports = <<>>

\* files without attrs and conda files
CondaAttrs ==
    {[build_number |-> None, build_no |-> None]}
    \cup {[build_number |-> Some(b), build_no |-> None] : b \in 1..MaxBuild}

\* a release, an older dev version and the last dev version
ThreeVersions == <<"1.0.0", "1.0.0dev1", "1.0.1rc2">>

\* every flag and limit, packages of up to MaxFiles files
Init ==
    /\ Packages({ThreeVersions}, CondaAttrs, 1..MaxSize, 1..MaxTime,
                {{"main"}}, MaxFiles)
    /\ InitWith(CommandLines({"intel/pkg"}, {None}, BOOLEAN, BOOLEAN))

\* runs that never prompt, packages of up to PlanMaxFiles files
InitPlan ==
    /\ Packages({ThreeVersions}, CondaAttrs, 1..PlanMaxSize, 1..MaxTime,
                {{"main"}}, PlanMaxFiles)
    /\ InitWith(CommandLines({"intel/pkg"}, {None}, {TRUE}, BOOLEAN)
                \cup CommandLines({"intel/pkg"}, {None}, {FALSE}, {TRUE}))

\* dry runs that are repeated
InitTwice ==
    /\ Packages({ThreeVersions}, CondaAttrs, 1..MaxSize, 1..MaxTime,
                {{"main"}}, MaxFiles)
    /\ InitWith(CommandLines({"intel/pkg"}, {None}, {TRUE}, BOOLEAN))

\* dry runs with a priority cap: every version sequence over four version
\* strings, conda files, wheels, labels and a label filter
InitClassify ==
    /\ Packages(SeqsOf({"1.0.0", "1.0.0dev1", "1.0.1rc2", "1.2dev1"},
                       1, MaxVersions),
                AttrsSpace, 1..PlanMaxSize, 1..MaxTime, {{"main"}, {"dev"}},
                ClassifyMaxFiles)
    /\ InitWith([package_path : {"intel/pkg"}, label : {None, Some("main")},
                 keep_count : {None}, max_size : {None},
                 max_priority : {Some(1)}, dry_run : {TRUE},
                 force : {FALSE}])

\* a package of the quota table and a package without quota
InitQuota ==
    /\ Packages({ThreeVersions}, CondaAttrs, 1..PlanMaxSize, 1..MaxTime,
                {{"main"}}, MaxFiles)
    /\ InitWith(CommandLines({"intel/pkg", "dppy/dpctl"}, {None}, BOOLEAN,
                              BOOLEAN))

\* files uploaded at different times, listed in any order
InitOrder ==
    /\ Packages({ThreeVersions}, CondaAttrs, 1..PlanMaxSize, 1..OrderMaxTime,
                {{"main"}}, MaxFiles)
    /\ InitWith(CommandLines({"intel/pkg"}, {None}, BOOLEAN, BOOLEAN))

\* packages of a release and a dev version, every flag and limit
InitLive ==
    /\ Packages({<<"1.0.0", "1.0.1rc2">>}, CondaAttrs, 1..PlanMaxSize,
                1..MaxTime, {{"main"}}, PlanMaxFiles)
    /\ InitWith(CommandLines({"intel/pkg"}, {None}, BOOLEAN, BOOLEAN))

\* files without attrs under the labels main and dev, with and without
\* --label main
InitLabel ==
    /\ Packages({<<"1.0.0", "1.0.1rc2">>},
                {[build_number |-> None, build_no |-> None]}, 1..MaxSize,
                1..MaxTime, {{"main"}, {"dev"}}, MaxFiles)
    /\ InitWith(CommandLines({"intel/pkg"}, {None, Some("main")}, BOOLEAN,
                              BOOLEAN))

\* the package of the example in the help text of --max-priority, lines
\* 244-252, listed newest first
ExampleFile(n, version, build, time) ==
    [full_name |-> n, version |-> version,
     attrs |-> [build_number |-> Some(build), build_no |-> None],
     size |-> 1, upload_time |-> time, labels |-> {"main"},
     cleanup_priority |-> None]

ExamplePackage ==
    [versions |-> <<"1.0", "1.0", "1.2dev1", "2.0", "2.1dev1", "2.1dev2">>,
     files |-> <<ExampleFile(1, "1.0", 0, 8), ExampleFile(2, "1.0", 1, 7),
                 ExampleFile(3, "1.2dev1", 0, 6), ExampleFile(4, "2.0", 0, 5),
                 ExampleFile(5, "2.1dev1", 0, 4),
                 ExampleFile(6, "2.1dev1", 1, 3),
                 ExampleFile(7, "2.1dev2", 0, 2),
                 ExampleFile(8, "2.1dev2", 2, 1)>>]

InitExample ==
    /\ registry = ExamplePackage
    /\ InitWith(CommandLines({"intel/pkg"}, {None}, BOOLEAN, BOOLEAN))

Next ==
    \/ Main
    \/ Fetch
    \/ StopLoop
    \/ EndLoop
    \/ DryRunStep
    \/ ForceStep
    \/ ConfirmStep
    \/ DeclineStep
    \/ RemoveFails

\* the steps of a run with dry_run or force set
NextPlan ==
    \/ Main
    \/ Fetch
    \/ StopLoop
    \/ EndLoop
    \/ DryRunStep
    \/ ForceStep
    \/ RemoveFails

\* the steps of repeated dry runs
NextTwice ==
    \/ Main
    \/ Fetch
    \/ StopLoop
    \/ EndLoop
    \/ DryRunStep
    \/ Rerun

\* the steps of a run in which every call of remove_dist returns
NextReturns ==
    \/ Main
    \/ Fetch
    \/ StopLoop
    \/ EndLoop
    \/ DryRunStep
    \/ ForceStep
    \/ ConfirmStep
    \/ DeclineStep

\* the steps of the loop of lines 165-205 when every call returns
LoopStep ==
    \/ StopLoop
    \/ EndLoop
    \/ DryRunStep
    \/ ForceStep
    \/ ConfirmStep
    \/ DeclineStep

\* the steps up to the classified and sorted queue
NextClassify ==
    \/ Main
    \/ Fetch

Spec == Init /\ [][Next]_vars

SpecPlan == InitPlan /\ [][NextPlan]_vars

SpecTwice == InitTwice /\ [][NextTwice]_vars

SpecClassify == InitClassify /\ [][NextClassify]_vars

SpecExample == InitExample /\ [][Next]_vars

SpecQuota == InitQuota /\ [][Next]_vars

SpecOrder == InitOrder /\ [][Next]_vars

SpecLabel == InitLabel /\ [][Next]_vars

\* bool_input and remove_dist return, and the interpreter runs the loop on
\* while it has an iteration to execute
SpecLive == InitLive /\ [][NextReturns]_vars /\ WF_vars(LoopStep)

----------------------------------------------------------------------------
(* Vocabulary of the properties.                                           *)

\* cleanup_packages has fetched and classified the package
Started == pc \in {"loop", "done", "aborted"}

\* the classified files of the snapshot that pass the label filter
Listed == SelectSeq(package.files, InLabel)

FileNamed(n) == CHOOSE f \in Range(package.files) : f.full_name = n

\* full names of the files the loop has handled, in order
LogNames == [i \in 1..Len(log) |-> log[i][1]]

QueueNames == {files[i].full_name : i \in 1..Len(files)}

SameGroup(f, g) ==
    f.version = g.version /\ build_number(f) = build_number(g)

\* f has the maximum build number of its version
IsTopBuild(f) ==
    \A g \in Range(Listed) :
        g.version = f.version => build_number(g) <= build_number(f)

\* v is the last dev version of the version sequence
IsLastDev(v) ==
    /\ is_dev_version(v)
    /\ \E i \in 1..Len(package.versions) :
           /\ package.versions[i] = v
           /\ \A j \in (i + 1)..Len(package.versions) :
                  ~is_dev_version(package.versions[j])

PriorityOf(f) == Get(f.cleanup_priority)

\* the pair (cleanup_priority, upload_time) of a is at most that of b
KeyOrdered(a, b) ==
    \/ PriorityOf(a) < PriorityOf(b)
    \/ PriorityOf(a) = PriorityOf(b) /\ a.upload_time <= b.upload_time

\* the queue as line 160 left it
SortedQueue == SortFiles(Listed)

\* full names of the first k files of the sorted queue
SortedPrefix(k) == {SortedQueue[i].full_name : i \in 1..k}

\* full names of the files the loop has handled, in order, in any mode
HandledNames == IF args.dry_run \/ args.force THEN LogNames ELSE prompted

\* full names of the files on the server
RegistryNames == {registry.files[i].full_name : i \in 1..Len(registry.files)}

\* full names of the files of the snapshot
SnapshotNames == {package.files[i].full_name : i \in 1..Len(package.files)}

OnlyLimit(limit) ==
    /\ (limit = "max_size") = (args.max_size # None)
    /\ (limit = "max_priority") = (args.max_priority # None)
    /\ (limit = "keep_count") = (args.keep_count # None)

----------------------------------------------------------------------------
(* C1. Group continuation: when the loop has ended and every deletion was  *)
(* carried out, no (version, build) group has both a handled file and a    *)
(* file still in the queue.                                                *)

C1_GroupContinuation ==
    pc = "done" =>
        \A i \in 1..Len(log), j \in 1..Len(files) :
            ~SameGroup(FileNamed(log[i][1]), files[j])

(* C2. Worked example of the help text: the eight files of ExamplePackage  *)
(* get the priorities 1, 4, 2, 4, 0, 2, 3, 4.                              *)

C2_HelpTextPriorities ==
    (Started /\ package.versions = ExamplePackage.versions) =>
        [i \in 1..Len(package.files) |-> PriorityOf(package.files[i])]
            = <<1, 4, 2, 4, 0, 2, 3, 4>>

(* C3. Dev versions: a file of the last dev version has priority 4 when it *)
(* has the maximum build of its version and 3 otherwise; a file of another *)
(* dev version has priority 2 when it has the maximum build and 0          *)
(* otherwise.                                                              *)

C3_DevPriorities ==
    Started =>
        \A f \in Range(Listed) :
            is_dev_version(f.version) =>
                PriorityOf(f) =
                    IF IsLastDev(f.version)
                    THEN (IF IsTopBuild(f) THEN 4 ELSE 3)
                    ELSE (IF IsTopBuild(f) THEN 2 ELSE 0)

\* an older dev version with two builds beside the last dev version
C3_Witness ==
    /\ Started
    /\ \E f, g, h \in Range(Listed) :
           /\ is_dev_version(f.version) /\ ~IsLastDev(f.version)
           /\ g.version = f.version
           /\ IsTopBuild(f) /\ ~IsTopBuild(g)
           /\ IsLastDev(h.version)
           /\ PriorityOf(f) = 2 /\ PriorityOf(g) = 0 /\ PriorityOf(h) = 4

(* C4. Release versions: a file of a version that is no dev version has    *)
(* priority 4 when it has the maximum build of its version and 1           *)
(* otherwise, whatever the last dev version is.                            *)

C4_ReleasePriorities ==
    Started =>
        \A f \in Range(Listed) :
            ~is_dev_version(f.version) =>
                PriorityOf(f) = IF IsTopBuild(f) THEN 4 ELSE 1

\* a release with two builds in a package that has a last dev version
C4_Witness ==
    /\ Started
    /\ last_dev # None
    /\ \E f, g \in Range(Listed) :
           /\ ~is_dev_version(f.version)
           /\ g.version = f.version
           /\ PriorityOf(f) = 4 /\ PriorityOf(g) = 1

(* C5. Priority cap: when the loop has ended, every file with              *)
(* cleanup_priority <= max_priority has been handled, and when             *)
(* max_priority is the only limit the handled files are exactly those.     *)

C5_PriorityCap ==
    (pc = "done" /\ args.max_priority # None) =>
        LET capped == {f \in Range(Listed) :
                          PriorityOf(f) <= Get(args.max_priority)}
        IN  /\ {f.full_name : f \in capped} \subseteq Range(LogNames)
            /\ OnlyLimit("max_priority") =>
                   Range(LogNames) = {f.full_name : f \in capped}

\* a run with only a priority cap that handles some files and keeps others
C5_Witness ==
    /\ pc = "done"
    /\ OnlyLimit("max_priority")
    /\ log # <<>>
    /\ files # <<>>

(* C6 as claimed. Keep-count: when keep_count = N is the only limit and    *)
(* the loop has ended, exactly N files remain in the queue, unless the     *)
(* last handled file was handled by the group-continuation rule.           *)

C6_KeepCountExact ==
    (pc = "done" /\ OnlyLimit("keep_count")) =>
        \/ Len(files) = Get(args.keep_count)
        \/ /\ Len(files) < Get(args.keep_count)
           /\ log # <<>>
           /\ ~log[Len(log)][2]

(* C6 as amended. Keep-count: when keep_count = N is the only limit and    *)
(* the loop has ended on a queue of n files, the first max(0, n - N) files *)
(* were handled with need_clean true, every further handled file shares    *)
(* version and build with the last of those, and nothing else was handled: *)
(* min(n, N) files remain but for the files of the group continuation.     *)

C6_KeepCountAtMost ==
    (pc = "done" /\ OnlyLimit("keep_count")) =>
        LET n == Len(Listed)
            N == Get(args.keep_count)
            excess == IF n > N THEN n - N ELSE 0
        IN  /\ Len(log) >= excess
            /\ Len(files) = n - Len(log)
            /\ \A i \in 1..Len(log) : log[i][2] = (i <= excess)
            /\ \A i \in (excess + 1)..Len(log) :
                   /\ excess >= 1
                   /\ SameGroup(FileNamed(log[i][1]),
                                FileNamed(log[excess][1]))

\* the keep-count is reached and the group of the last file is continued
C6_Witness ==
    /\ pc = "done"
    /\ OnlyLimit("keep_count")
    /\ Get(args.keep_count) >= 1
    /\ Len(files) < Get(args.keep_count)
    /\ Len(Listed) > Get(args.keep_count)

(* C7. Size budget: when a size cap is configured and the loop has ended,  *)
(* the sizes of the files still in the queue sum to at most max_size.      *)

C7_SizeBudget ==
    (pc = "done" /\ args.max_size # None) =>
        SumSizes(files) <= Get(args.max_size)

\* a package above the cap, some files handled and some kept
C7_Witness ==
    /\ pc = "done"
    /\ args.max_size # None
    /\ SumSizes(Listed) > Get(args.max_size)
    /\ files # <<>>

(* C8. With dry_run set no removal request is issued and bool_input is     *)
(* never called; with force set and dry_run unset bool_input is never      *)
(* called and a removal request is issued for every file the loop handles. *)

C8_DryRunForce ==
    /\ args.dry_run => (remove_calls = <<>> /\ prompted = <<>>)
    /\ (~args.dry_run /\ args.force) =>
           /\ prompted = <<>>
           /\ remove_calls = LogNames
           /\ \A f \in Range(Listed) :
                  f.full_name \notin QueueNames =>
                      f.full_name \in Range(remove_calls)

\* a forced run that has removed two files
C8_Witness ==
    /\ pc = "done"
    /\ ~args.dry_run /\ args.force
    /\ Len(remove_calls) >= 2

(* C9. Boundary: with an empty file list, or with max_size the only limit  *)
(* and the total size at most max_size, the loop handles no file: no       *)
(* removal request, no prompt, zero reclaimed bytes, the queue untouched.  *)

C9_NothingToClean ==
    (/\ Started
     /\ \/ Listed = <<>>
        \/ /\ OnlyLimit("max_size")
           /\ SumSizes(Listed) <= Get(args.max_size)) =>
        /\ pc # "aborted"
        /\ remove_calls = <<>>
        /\ prompted = <<>>
        /\ log = <<>>
        /\ cleanup_size = 0
        /\ Len(files) = Len(Listed)

\* the loop has stopped at the first file of a package exactly at the cap
C9_Witness ==
    /\ pc = "done"
    /\ OnlyLimit("max_size")
    /\ Listed # <<>>
    /\ SumSizes(Listed) = Get(args.max_size)

(* C10. Idempotence of dry-run: the second dry run of the same command     *)
(* line reports the same files for deletion, in the same order, and the    *)
(* same reclaimed size as the first.                                       *)

C10_DryRunIdempotent ==
    (pc = "done" /\ args.dry_run /\ reports # <<>>) =>
        <<log, cleanup_size>> = reports[Len(reports)]

\* the second dry run has ended after reporting a file and keeping another
C10_Witness ==
    /\ pc = "done"
    /\ args.dry_run
    /\ Len(reports) = 1
    /\ log # <<>>
    /\ files # <<>>

(* C11. Last dev version: last_dev is the dev version at the greatest      *)
(* position of the version sequence, None when the sequence has no dev     *)
(* version, and a dev file has priority 3 or 4 exactly when its version is *)
(* last_dev.                                                               *)

C11_LastDevByPosition ==
    Started =>
        LET vs == package.versions
            devs == {i \in 1..Len(vs) : is_dev_version(vs[i])}
        IN  /\ last_dev = IF devs = {} THEN None
                          ELSE Some(vs[CHOOSE i \in devs :
                                           \A j \in devs : j <= i])
            /\ \A f \in Range(Listed) :
                   is_dev_version(f.version) =>
                       (PriorityOf(f) \in {3, 4}) = (Some(f.version) = last_dev)

\* the greater dev version 1.0.1rc2 is listed before 1.0.0dev1
C11_Witness ==
    /\ Started
    /\ package.versions = <<"1.0.1rc2", "1.0.0dev1">>
    /\ last_dev = Some("1.0.0dev1")
    /\ \E f, g \in Range(Listed) :
           /\ f.version = "1.0.1rc2" /\ PriorityOf(f) = 2
           /\ g.version = "1.0.0dev1" /\ PriorityOf(g) = 4

(* C12. Configuration error: a command line without max_size, max_priority *)
(* and keep_count for a package without quota ends in the error before any *)
(* registry call; cleanup_packages runs with at least one limit; max_size  *)
(* is the quota only when --max-size is not given, and is --max-size       *)
(* otherwise.                                                              *)

C12_ConfigurationError ==
    /\ (NoLimit(argv) /\ argv.package_path \notin QuotaPackages) =>
           /\ pc \in {"main", "error"}
           /\ listed = 0
           /\ remove_calls = <<>>
           /\ prompted = <<>>
    /\ pc \notin {"main", "error"} =>
           (args.max_size # None \/ args.max_priority # None
            \/ args.keep_count # None)
    /\ pc # "main" =>
           /\ argv.max_size # None => args.max_size = argv.max_size
           /\ args.max_size # argv.max_size =>
                  /\ argv.package_path \in QuotaPackages
                  /\ args.max_size = Some(QUOTAS[argv.package_path])
           /\ args.keep_count = argv.keep_count
           /\ args.max_priority = argv.max_priority

\* the command line without limits was rejected
C12_Witness ==
    /\ pc = "error"
    /\ NoLimit(argv)
    /\ argv.package_path \notin QuotaPackages
    /\ registry.files # <<>>

(* C13. Registry error: a removal request that failed (its file is still   *)
(* on the server) is the last request of the run, was issued once, leaves  *)
(* the run aborted with the file at the front of the queue and no later    *)
(* confirmation request; the files removed before it are off the server.   *)

C13_RemovalFailureAborts ==
    /\ \A i \in 1..Len(remove_calls) :
           remove_calls[i] \in RegistryNames =>
               /\ i = Len(remove_calls)
               /\ pc = "aborted"
               /\ files # <<>>
               /\ files[1].full_name = remove_calls[i]
               /\ ~args.force =>
                      (/\ prompted # <<>>
                       /\ prompted[Len(prompted)] = remove_calls[i])
    /\ \A i, j \in 1..Len(remove_calls) :
           i < j => remove_calls[i] # remove_calls[j]
    /\ pc = "aborted" =>
           /\ remove_calls # <<>>
           /\ remove_calls[Len(remove_calls)] \in RegistryNames
           /\ RegistryNames =
                  SnapshotNames
                      \ {remove_calls[i] : i \in 1..(Len(remove_calls) - 1)}

\* the third removal of an interactive run failed with files left to clean
C13_Witness ==
    /\ pc = "aborted"
    /\ ~args.force
    /\ args.keep_count = Some(0)
    /\ Len(remove_calls) = 3
    /\ Len(files) >= 2

(* C14. Declined confirmation: in an interactive run a file that was       *)
(* prompted and not requested for removal is still on the server and has   *)
(* left the queue, the run is aborted only by a removal request, and the   *)
(* step that declines keeps the process in the loop with the next file at  *)
(* the front of the queue.                                                 *)

C14_DeclinedConfirmation ==
    /\ [](~args.dry_run /\ ~args.force =>
            /\ \A n \in Range(prompted) :
                   n \notin Range(remove_calls) =>
                       n \in RegistryNames /\ n \notin QueueNames
            /\ pc = "aborted" =>
                   prompted[Len(prompted)] = remove_calls[Len(remove_calls)])
    /\ [][(prompted' # prompted /\ remove_calls' = remove_calls) =>
              /\ pc' = "loop"
              /\ registry' = registry
              /\ files' = Tail(files)]_vars

\* the first file was declined, the second one was removed
C14_Witness ==
    /\ ~args.dry_run /\ ~args.force
    /\ Len(prompted) = 2
    /\ remove_calls = <<prompted[2]>>
    /\ prompted[1] \in RegistryNames
    /\ prompted[2] \notin RegistryNames

(* C15 as claimed. Eviction order: the sorted queue ascends in             *)
(* (cleanup_priority, upload_time), removal requests are issued in that    *)
(* order, and the set of the files deleted so far is a prefix of the       *)
(* sorted queue.                                                           *)

C15_DeletedIsPrefix ==
    Started =>
        /\ \A i, j \in 1..Len(SortedQueue) :
               i < j => KeyOrdered(SortedQueue[i], SortedQueue[j])
        /\ \A i, j \in 1..Len(remove_calls) :
               i < j => KeyOrdered(FileNamed(remove_calls[i]),
                                   FileNamed(remove_calls[j]))
        /\ \E k \in 0..Len(SortedQueue) :
               SnapshotNames \ RegistryNames = SortedPrefix(k)

(* C15 as amended. Eviction order: the sorted queue ascends in             *)
(* (cleanup_priority, upload_time), removal requests are issued in that    *)
(* order, the files handled so far are a prefix of the sorted queue and    *)
(* the queue is the rest of it; the deleted files are among the handled    *)
(* ones, and are all of them in a run with force set.                      *)

C15_HandledIsPrefix ==
    Started =>
        LET k == Len(Listed) - Len(files)
        IN  /\ \A i, j \in 1..Len(SortedQueue) :
                   i < j => KeyOrdered(SortedQueue[i], SortedQueue[j])
            /\ \A i, j \in 1..Len(remove_calls) :
                   i < j => KeyOrdered(FileNamed(remove_calls[i]),
                                       FileNamed(remove_calls[j]))
            /\ k >= 0
            /\ files = SubSeq(SortedQueue, k + 1, Len(SortedQueue))
            /\ SnapshotNames \ RegistryNames \subseteq SortedPrefix(k)
            /\ (args.force /\ ~args.dry_run) =>
                   SnapshotNames \ RegistryNames = SortedPrefix(k)

\* two files of one priority listed newest first, the older one was deleted
C15_Witness ==
    /\ Started
    /\ Len(package.files) = 2
    /\ PriorityOf(package.files[1]) = PriorityOf(package.files[2])
    /\ package.files[1].upload_time > package.files[2].upload_time
    /\ SnapshotNames \ RegistryNames = {package.files[2].full_name}

(* C16. Reclaimed-size report: when a run with dry_run unset has ended,    *)
(* cleanup_size is the sum of the sizes of the files for which remove_dist *)
(* was called.                                                             *)

C16_ReclaimedSize ==
    (pc = "done" /\ ~args.dry_run) =>
        cleanup_size =
            SumSizes([i \in 1..Len(remove_calls) |->
                         FileNamed(remove_calls[i])])

(* C17. Termination: when every call returns the loop ends; at its end the *)
(* queue is empty, or the front file has need_clean false and does not     *)
(* share version and build with the file handled last; a step that stays   *)
(* in the loop removes exactly the front file from the queue.              *)

C17_Termination ==
    /\ (pc = "loop") ~> (pc = "done")
    /\ [](pc = "done" =>
            \/ files = <<>>
            \/ /\ ~need_clean
               /\ \/ HandledNames = <<>>
                  \/ ~SameGroup(FileNamed(HandledNames[Len(HandledNames)]),
                                files[1]))
    /\ [][(pc = "loop" /\ pc' = "loop") =>
              (files # <<>> /\ files' = Tail(files))]_vars

\* the loop continued a group past need_clean false and then stopped
C17_Witness ==
    /\ pc = "done"
    /\ files # <<>>
    /\ \E i \in 1..Len(log) : ~log[i][2]

(* C18. Stop leaves nothing to clean: when the loop has stopped on a       *)
(* queue that is not empty, the sizes of the queued files sum to at most   *)
(* max_size, at most keep_count files are queued, and every queued file    *)
(* has a cleanup_priority above max_priority, for each limit that is set.  *)

C18_StopLeavesNothing ==
    (pc = "done" /\ files # <<>>) =>
        /\ args.max_size # None => SumSizes(files) <= Get(args.max_size)
        /\ args.keep_count # None => Len(files) <= Get(args.keep_count)
        /\ args.max_priority # None =>
               \A i \in 1..Len(files) :
                   PriorityOf(files[i]) > Get(args.max_priority)

\* the loop handled a file and stopped at the next with the three limits set
C18_Witness ==
    /\ pc = "done"
    /\ files # <<>>
    /\ Len(files) < Len(Listed)
    /\ args.max_size # None
    /\ args.keep_count # None
    /\ args.max_priority # None

(* C19. Uniform priority per group: after classification every file of    *)
(* the working list has a cleanup_priority in 0..4, and two files of the   *)
(* same version and build number have the same cleanup_priority.           *)

C19_UniformPriority ==
    Started =>
        /\ \A f \in Range(Listed) :
               f.cleanup_priority # None /\ PriorityOf(f) \in 0..4
        /\ \A f, g \in Range(Listed) :
               SameGroup(f, g) => PriorityOf(f) = PriorityOf(g)

\* a conda file and a wheel of one version and build, beside a lower build
C19_Witness ==
    /\ Started
    /\ \E f, g, h \in Range(Listed) :
           /\ SameGroup(f, g)
           /\ f.attrs.build_number # None
           /\ g.attrs.build_no # None
           /\ h.version = f.version
           /\ build_number(h) < build_number(f)
           /\ PriorityOf(h) < PriorityOf(f)

(* C20. Size accounting: from the start of the loop on, total_size is the  *)
(* sum of the sizes of the files in the queue, and total_size plus         *)
(* cleanup_size is the sum of the sizes of the label-filtered files of the *)
(* snapshot.                                                               *)

C20_SizeAccounting ==
    Started =>
        /\ total_size = SumSizes(files)
        /\ total_size + cleanup_size = SumSizes(Listed)

\* a file outside the label filter and a file of the filter that was handled
C20_Witness ==
    /\ pc = "done"
    /\ args.label # None
    /\ Len(Listed) < Len(package.files)
    /\ cleanup_size > 0

====
